---- MODULE Spec2Model ----
(***************************************************************************)
(* The MayaVi pipeline lifecycle: Source (core/source.py) and its          *)
(* specialisation VTKDataSource (sources/vtk_data_source.py).              *)
(*                                                                         *)
(* Objects are named by strings.  A Source owns an ordered list of         *)
(* children (Filters, ModuleManagers); a ModuleManager owns an ordered     *)
(* list of Modules.  Every handler of the code is one action.  A call to   *)
(* a child's start() or stop() is a call into code outside the two files:  *)
(* it either completes (and sets the child's running flag) or raises (and  *)
(* leaves the flag alone); which of the two happens is chosen by the       *)
(* action's ok... input.                                                   *)
(*                                                                         *)
(* Two history variables record what the last handler did: `last` (the     *)
(* operation, its receiver and argument, whether the receiver was running  *)
(* on entry, whether an exception left the handler, and the removed/added  *)
(* lists given to _handle_children) and `trace` (the calls the handler     *)
(* made on collaborators, in order).                                       *)
(***************************************************************************)
EXTENDS Integers, Sequences, FiniteSets, TLC

Range(s) == {s[i] : i \in DOMAIN s}

\* ---------------------------------------------------------------- bounds
\* Longest children list of a Source.
MaxChildren == 2
\* Longest children list of a ModuleManager.
MaxModules == 2
\* Longest inputs list of a Filter.
MaxInputs == 2
\* Longest list assigned to children wholesale.
MaxReplace == 2

\* Largest observer tag a dataset hands out.
MaxTag == 2

\* --------------------------------------------------------------- objects
None == "None"
\* Plain Source instances (the receivers of the tree operations).
Sources == {"s1"}
\* VTKDataSource instances: "v1" is the one the application works on, "v2"
\* a second instance that is given datasets or restored from a saved state.
VSources == {"v1", "v2"}
Primary == {"v1"}
\* Filter instances the application builds.
Filters == {"f1"}
\* The Filter instance built when a saved state with a filter child is
\* restored; is_filter(obj) is true of exactly Filters and this one.
RestoredFilters == {"g1"}
\* ModuleManager instances; those outside `alive` are not constructed yet.
Managers == {"m1", "m2"}
\* Module instances.
Modules == {"mod1", "mod2"}
\* The scenes a Source can be attached to: every source starts on "scene1".
Scenes == {"scene1", "scene2"}

\* The native datasets that can be given to a VTKDataSource.
Datasets == {"dA", "dB"}
\* The datasets a DataSetReader builds from the saved bytes of dA and dB:
\* new objects with the same contents.
Decoded == {"rA", "rB"}
Natives == Datasets \cup Decoded
\* What a dataset holds, named by the given dataset with those contents.
Content(d) ==
    CASE d = "rA" -> "dA"
      [] d = "rB" -> "dB"
      [] OTHER -> d
\* The six (role, kind) pairs in the order _update_data goes through them:
\* _setup_data_traits for 'point', then for 'cell', each over scalars,
\* vectors, tensors.
Pairs ==
    <<"point.scalars", "point.vectors", "point.tensors",
      "cell.scalars", "cell.vectors", "cell.tensors">>

PairSet == Range(Pairs)

\* Everything with a running flag.
Objects == Sources \cup VSources \cup Filters \cup RestoredFilters \cup Managers
\* Everything with a children list.
Parents == Sources \cup VSources \cup Managers

VARIABLES
    running,    \* Base.running of every object
    children,   \* Source.children / ModuleManager.children
    scene,      \* Base.scene of every object
    source,     \* ModuleManager.source
    inputs,     \* Filter.inputs
    alive,      \* the ModuleManagers constructed so far
    streak,     \* history: the add_module calls made in a row on a Source
                \* that had no ModuleManager child when the first was made
    last,       \* history: the last handler that ran
    trace,      \* history: the collaborator calls the last handler made
    data,       \* VTKDataSource.data
    sel,        \* the six selectors: <role>_<kind>_name
    lists,      \* the six candidate lists: _<role>_<kind>_list
    first,      \* VTKDataSource._first
    observer_id, \* VTKDataSource._observer_id
    aa_input,   \* VTKDataSource._assign_attribute.input
    outputs,    \* VTKDataSource.outputs
    name,       \* VTKDataSource.name
    observers,  \* per dataset: its native ModifiedEvent observers
    nextTag,    \* per dataset: the tag its next add_observer returns
    connected,  \* the messenger's (dataset, source) connections
    failed      \* history: the sources one of whose data assignments raised

treeVars == <<running, children, scene, source, inputs, alive, streak>>
vtkVars == <<data, sel, lists, first, observer_id, aa_input, outputs, name,
             observers, nextTag, connected, failed>>
vars == <<running, children, scene, source, inputs, alive, streak, last, trace,
          data, sel, lists, first, observer_id, aa_input, outputs, name,
          observers, nextTag, connected, failed>>

\* ---------------------------------------------------------------- helpers
Count(s, x) == Cardinality({i \in DOMAIN s : s[i] = x})

Repeat(x, n) == [i \in 1..n |-> x]

SeqsUpTo(S, n) == UNION {[1..k -> S] : k \in 0..n}

\* list.remove-by-index: del s[i]
RemoveAt(s, i) == [j \in 1..(Len(s) - 1) |-> IF j < i THEN s[j] ELSE s[j + 1]]

is_filter(obj) == obj \in Filters \cup RestoredFilters

isModuleManager(obj) == obj \in Managers

isModule(obj) == obj \in Modules

\* isinstance(child, self.__class__): the sources are Source instances, and
\* so are the filters (Filter derives from Source: "a non-filter source
\* object" is what the branch is meant for).
isSameClass(self, obj) ==
    \/ self \in Sources
       /\ obj \in Sources \cup VSources \cup Filters \cup RestoredFilters
    \/ self \in VSources /\ obj \in VSources

\* A call made on a collaborator: what was called, on which object, how it
\* ended, and whether the object was running when it was called.
Event(e, o, r, w) == [ev |-> e, obj |-> o, res |-> r, was |-> w]

Outcome(ok) == IF ok THEN "ok" ELSE "raise"

NoOp(called, self) ==
    [op |-> called, self |-> self, arg |-> None, wasRunning |-> running[self],
     raised |-> FALSE, removed |-> <<>>, added |-> <<>>]

\* ------------------------------------------------- calls on child objects
\* obj.start() on a child: on completion the child is running (Base.start
\* sets the flag); when it raises the flag is left as it was.
ChildStarted(run, obj, ok) == IF ok THEN [run EXCEPT ![obj] = TRUE] ELSE run

\* obj.stop() on a child: on completion the child is not running.
ChildStopped(run, obj, ok) == IF ok THEN [run EXCEPT ![obj] = FALSE] ELSE run

\* Mutant: the loop without its try/except ends at the first raise.
RECURSIVE StartEachAbort(_, _, _)
StartEachAbort(run, objs, ok) ==
    IF objs = <<>> THEN [running |-> run, trace |-> <<>>]
    ELSE LET e == Event("start", Head(objs), Outcome(Head(ok)), run[Head(objs)])
             rest == StartEachAbort(ChildStarted(run, Head(objs), TRUE),
                                    Tail(objs), Tail(ok))
         IN  IF Head(ok)
             THEN [running |-> rest.running, trace |-> <<e>> \o rest.trace]
             ELSE [running |-> run, trace |-> <<e>>]

\* `for obj in objs: try: obj.start() except: exception()`: every object is
\* started in order, whatever the earlier ones did.  The result holds the
\* running flags afterwards and the calls made.
RECURSIVE StartEach(_, _, _)
StartEach(run, objs, ok) ==
    IF objs = <<>> THEN [running |-> run, trace |-> <<>>]
    ELSE LET e == Event("start", Head(objs), Outcome(Head(ok)), run[Head(objs)])
             rest == StartEach(ChildStarted(run, Head(objs), Head(ok)),
                               Tail(objs), Tail(ok))
         IN  [running |-> rest.running, trace |-> <<e>> \o rest.trace]

\* Mutant: the loop over stop() with the try/except of the loop over
\* start(): every object is reached and no exception leaves it.
RECURSIVE StopEachSwallowed(_, _, _)
StopEachSwallowed(run, objs, ok) ==
    IF objs = <<>> THEN [running |-> run, trace |-> <<>>, raised |-> FALSE]
    ELSE LET e == Event("stop", Head(objs), Outcome(Head(ok)), run[Head(objs)])
             rest == StopEachSwallowed(ChildStopped(run, Head(objs), Head(ok)),
                                       Tail(objs), Tail(ok))
         IN  [running |-> rest.running, trace |-> <<e>> \o rest.trace,
              raised |-> FALSE]

\* `for obj in objs: obj.stop()`: the loop ends at the first stop() that
\* raises; the objects after it are not reached.  The result holds the
\* running flags afterwards, the calls made and whether one raised.
RECURSIVE StopEach(_, _, _)
StopEach(run, objs, ok) ==
    IF objs = <<>> THEN [running |-> run, trace |-> <<>>, raised |-> FALSE]
    ELSE LET e == Event("stop", Head(objs), Outcome(Head(ok)), run[Head(objs)])
             rest == StopEach(ChildStopped(run, Head(objs), TRUE),
                              Tail(objs), Tail(ok))
         IN  IF Head(ok)
             THEN [running |-> rest.running, trace |-> <<e>> \o rest.trace,
                   raised |-> rest.raised]
             ELSE [running |-> run, trace |-> <<e>>, raised |-> TRUE]

\* --------------------------------------------------- Source._handle_children
\* Mutant: the hook never starts what it is given.
HookStartsNever(run, self) == FALSE

\* `if self.running:` of the hook's loop over the added objects.
HookStarts(run, self) == run[self]

\* Mutant: the removed objects are stopped only by a running parent.
HookStopsIfRunning(run, self, removed) == IF run[self] THEN removed ELSE <<>>

\* The objects the hook stops: all of `removed`.
HookStops(run, self, removed) == removed

\* _handle_children(self, removed, added) run on the fields (run, scn, src,
\* inp); okStop and okStart give the outcome of each stop() and start().
\* The result holds the fields afterwards, the calls made and whether an
\* exception left the hook (only a stop() can cause that).
HandleChildren(self, removed, added, okStop, okStart, run, scn, src, inp) ==
    LET stopped == StopEach(run, HookStops(run, self, removed), okStop)
        starts == HookStarts(run, self)
        started == IF starts THEN StartEach(stopped.running, added, okStart)
                   ELSE [running |-> stopped.running, trace |-> <<>>]
        scn2 == [o \in DOMAIN scn |->
                    IF o \in Range(added) THEN scn[self] ELSE scn[o]]
        src2 == [m \in DOMAIN src |->
                    IF m \in Range(added) THEN self ELSE src[m]]
        inp2 == [f \in DOMAIN inp |-> inp[f] \o Repeat(self, Count(added, f))]
    IN  IF stopped.raised
        THEN [running |-> stopped.running, scene |-> scn, source |-> src,
              inputs |-> inp, trace |-> stopped.trace, raised |-> TRUE]
        ELSE [running |-> started.running, scene |-> scn2, source |-> src2,
              inputs |-> inp2, trace |-> stopped.trace \o started.trace,
              raised |-> FALSE]

\* The outcomes worth choosing: all of them where the call is made, and the
\* single all-TRUE vector where it is not.
Outcomes(n, made) == IF made THEN [1..n -> BOOLEAN] ELSE {[i \in 1..n |-> TRUE]}

\* The outcomes of a loop of stop() calls that ends at the first raise: the
\* k-th call raises, or (k = n + 1) none does.
StopOutcomes(n, made) ==
    IF made THEN {[i \in 1..n |-> i # k] : k \in 1..(n + 1)}
    ELSE {[i \in 1..n |-> TRUE]}

Flag(made) == IF made THEN BOOLEAN ELSE {TRUE}

InputsFit(inp) == \A f \in DOMAIN inp : Len(inp[f]) <= MaxInputs

\* What may be handed to a Source as a child: the filters and the
\* ModuleManagers that exist.
Attachable == Filters \cup alive

\* ------------------------------------------------------ Source.start / stop
\* Mutant: start() without its `if self.running: return`.
SourceStartAgain(self, run, ok) ==
    LET started == StartEach(run, children[self], ok)
    IN  [running |-> [started.running EXCEPT ![self] = TRUE],
         trace |-> started.trace, raised |-> FALSE]

\* Source.start(self) on the running flags `run`: nothing when already
\* running; otherwise every child is started, a raising child is logged
\* and skipped, and Base.start sets the flag.
SourceStart(self, run, ok) ==
    IF run[self]
    THEN [running |-> run, trace |-> <<>>, raised |-> FALSE]
    ELSE LET started == StartEach(run, children[self], ok)
         IN  [running |-> [started.running EXCEPT ![self] = TRUE],
              trace |-> started.trace, raised |-> FALSE]

\* Mutant: stop() clears its own flag and leaves the children alone.
SourceStopSelfOnly(self, run, ok) ==
    [running |-> [run EXCEPT ![self] = FALSE], trace |-> <<>>, raised |-> FALSE]

\* Source.stop(self): nothing when not running; otherwise the children are
\* stopped in order, a raising child ends the call with its exception, and
\* only after the loop does Base.stop clear the flag.
SourceStop(self, run, ok) ==
    IF ~run[self]
    THEN [running |-> run, trace |-> <<>>, raised |-> FALSE]
    ELSE LET stopped == StopEach(run, children[self], ok)
         IN  [running |-> IF stopped.raised THEN stopped.running
                          ELSE [stopped.running EXCEPT ![self] = FALSE],
              trace |-> stopped.trace, raised |-> stopped.raised]

\* ------------------------------------------------------- Source.add_module
HasManager(kids) == \E i \in DOMAIN kids : isModuleManager(kids[i])

\* Mutant: the loop with a break, which keeps the first match.
PickFirstManager(kids) ==
    kids[CHOOSE i \in DOMAIN kids :
            /\ isModuleManager(kids[i])
            /\ \A j \in DOMAIN kids : isModuleManager(kids[j]) => i <= j]

\* `for child in self.children: if isinstance(child, ModuleManager): mm =
\* child`: the loop keeps the last match.
PickManager(kids) ==
    kids[CHOOSE i \in DOMAIN kids :
            /\ isModuleManager(kids[i])
            /\ \A j \in DOMAIN kids : isModuleManager(kids[j]) => j <= i]

\* The object ModuleManager(...) constructs.
NewManager == CHOOSE m \in Managers \ alive : TRUE

\* Mutant: add_module leaves the start of its new manager to the hook.
NewManagerStartsNever(self) == FALSE

\* `if self.running: mm.start()` on the manager add_module has just built.
NewManagerStarts(self) == running[self]

\* add_module(self, module).  okNew is the outcome of the direct mm.start(),
\* okHook that of the start() the children hook makes.
AddModuleFits(self) ==
    IF HasManager(children[self])
    THEN Len(children[PickManager(children[self])]) < MaxModules
    ELSE Managers \ alive # {} /\ Len(children[self]) < MaxChildren

AddModuleResult(self, module, okNew, okHook) ==
    IF HasManager(children[self])
    THEN LET mm == PickManager(children[self])
         IN  [children |-> [children EXCEPT ![mm] = Append(@, module)],
              running |-> running, scene |-> scene, source |-> source,
              inputs |-> inputs, alive |-> alive,
              trace |-> <<>>, raised |-> FALSE, added |-> <<>>]
    ELSE LET mm == NewManager
             scn0 == [scene EXCEPT ![mm] = scene[self]]
             src0 == [source EXCEPT ![mm] = self]
             direct == NewManagerStarts(self)
             run0 == IF direct THEN ChildStarted(running, mm, okNew) ELSE running
             h == HandleChildren(self, <<>>, <<mm>>, <<>>, <<okHook>>,
                                 run0, scn0, src0, inputs)
         IN  IF direct /\ ~okNew
             THEN \* mm.start() raised: the new manager is dropped.
                  [children |-> children, running |-> running, scene |-> scene,
                   source |-> source, inputs |-> inputs, alive |-> alive,
                   trace |-> <<Event("start", mm, "raise", FALSE)>>,
                   raised |-> TRUE, added |-> <<>>]
             ELSE [children |-> [children EXCEPT ![self] = Append(@, mm),
                                                 ![mm] = Append(@, module)],
                   running |-> h.running, scene |-> h.scene, source |-> h.source,
                   inputs |-> h.inputs, alive |-> alive \cup {mm},
                   trace |-> (IF direct THEN <<Event("start", mm, "ok", FALSE)>> ELSE <<>>)
                             \o h.trace,
                   raised |-> FALSE, added |-> <<mm>>]

\* `self.children.append(child)` with the hook it fires.
AppendResult(self, child, okHook) ==
    LET h == HandleChildren(self, <<>>, <<child>>, <<>>, <<okHook>>,
                            running, scene, source, inputs)
    IN  [children |-> [children EXCEPT ![self] = Append(@, child)],
         running |-> h.running, scene |-> h.scene, source |-> h.source,
         inputs |-> h.inputs, alive |-> alive,
         trace |-> h.trace, raised |-> FALSE, added |-> <<child>>]

\* `self.scene.add_child(child)`: the scene takes the object; nothing of
\* this Source changes.
ToSceneResult(self, child) ==
    [children |-> children, running |-> running, scene |-> scene,
     source |-> source, inputs |-> inputs, alive |-> alive,
     trace |-> <<Event("scene.add_child", child, scene[self], FALSE)>>,
     raised |-> FALSE, added |-> <<>>]

\* Mutant: the parent's class is tested before is_filter.
AddChildSameClassFirst(self, child, okNew, okHook) ==
    IF isSameClass(self, child) THEN ToSceneResult(self, child)
    ELSE IF is_filter(child) THEN AppendResult(self, child, okHook)
    ELSE IF isModule(child) THEN AddModuleResult(self, child, okNew, okHook)
    ELSE AppendResult(self, child, okHook)

\* Source.add_child(self, child): the isinstance chain.
AddChildResult(self, child, okNew, okHook) ==
    IF is_filter(child) THEN AppendResult(self, child, okHook)
    ELSE IF isSameClass(self, child) THEN ToSceneResult(self, child)
    ELSE IF isModule(child) THEN AddModuleResult(self, child, okNew, okHook)
    ELSE AppendResult(self, child, okHook)

AddChildFits(self, child) ==
    IF is_filter(child) THEN Len(children[self]) < MaxChildren
    ELSE IF isSameClass(self, child) THEN TRUE
    ELSE IF isModule(child) THEN AddModuleFits(self)
    ELSE Len(children[self]) < MaxChildren

\* The post-state of a handler given as a result record.
Apply(r) ==
    /\ InputsFit(r.inputs)
    /\ children' = r.children
    /\ running' = r.running
    /\ scene' = r.scene
    /\ source' = r.source
    /\ inputs' = r.inputs
    /\ alive' = r.alive
    /\ trace' = r.trace

NoStreak == [on |-> None, mods |-> <<>>]

\* The history of add_module calls made in a row.
StreakAfter(self, module, r) ==
    IF r.raised THEN NoStreak
    ELSE IF ~HasManager(children[self]) THEN [on |-> self, mods |-> <<module>>]
    ELSE IF streak.on = self THEN [on |-> self, mods |-> Append(streak.mods, module)]
    ELSE NoStreak

\* ------------------------------------------------------------ VTKDataSource
\* get_all_attributes(data): the array names the dataset holds for each
\* (role, kind).  dA has point scalars t and p and point vectors v; dB has
\* the point scalars p alone.
Arrays(d, pair) ==
    CASE Content(d) = "dA" /\ pair = "point.scalars" -> <<"t", "p">>
      [] Content(d) = "dA" /\ pair = "point.vectors" -> <<"v">>
      [] Content(d) = "dB" /\ pair = "point.scalars" -> <<"p">>
      [] OTHER -> <<>>

\* `_observer_id = Int(-1)`: the id held before any observer is added.
NoObserver == 0 - 1

\* data.__class__.__name__
ClassName(d) == IF Content(d) = "dA" THEN "PolyData" ELSE "ImageData"

\* The datasets on which source v has a ModifiedEvent observer among obs.
ObservedBy(obs, v) == {d \in Natives : \E o \in obs[d] : o.by = v}

\* `self.data_changed = True`: the event fired on v, with what a listener
\* finds on v at that moment: whether it is running, its outputs, the
\* datasets it observes and its name.
Fired(v, cause, outs, obs, nm) ==
    [ev |-> "data_changed", obj |-> v, res |-> cause, was |-> running[v],
     seen |-> [outputs |-> outs, observed |-> ObservedBy(obs, v), name |-> nm]]

\* _get_name(): the label made from the dataset's class name.
GetName(d) ==
    CASE d = None -> "VTK Data (uninitialized)"
      [] ClassName(d) = "PolyData" -> "VTK Data (PolyData)"
      [] OTHER -> "VTK Data (ImageData)"

\* Mutant: the first candidate replaces an empty selector on every pass.
DefaultAlways(isFirst, current, values) ==
    IF current = "" THEN values[1] ELSE current

\* `default = getattr(obj, name); if obj._first and len(default) == 0:
\* default = values[0]`
Default(isFirst, current, values) ==
    IF isFirst /\ current = "" THEN values[1] ELSE current

\* The pairs for which the pass calls the assigner on dataset d.
Assigned(d) == {i \in DOMAIN Pairs : Arrays(d, Pairs[i]) # <<>>}

\* `obj.set(<pair>_name=default, trait_change_notify=False)`: the selector
\* takes the value and no change handler is called.
SetQuietly(pair, value) ==
    [ev |-> "obj.set", obj |-> pair, res |-> value, was |-> FALSE,
     notify |-> FALSE]

\* The loop of _setup_data_traits from pair i on.  st holds the selectors,
\* the candidate lists, the calls made and whether a call raised; failAt is
\* the pair whose aa.update() raises (0: none does).
RECURSIVE SetupDataTraits(_, _, _, _, _)
SetupDataTraits(i, d, isFirst, failAt, st) ==
    IF i > Len(Pairs) THEN st
    ELSE LET pair == Pairs[i]
             values == Arrays(d, pair) \o <<"">>
             ls == [st.lists EXCEPT ![pair] = values]
             default == Default(isFirst, st.sel[pair], values)
             calls == <<Event("set_active", pair, default, FALSE),
                        Event("aa.assign", pair, default, FALSE)>>
         IN  IF Len(values) > 1
             THEN IF failAt = i
                  THEN [sel |-> st.sel, lists |-> ls, raised |-> TRUE,
                        trace |-> st.trace \o calls
                                  \o <<Event("aa.update", pair, "raise", FALSE)>>]
                  ELSE SetupDataTraits(i + 1, d, isFirst, failAt,
                        [sel |-> [st.sel EXCEPT ![pair] = default],
                         lists |-> ls, raised |-> FALSE,
                         trace |-> st.trace \o calls
                                   \o <<Event("aa.update", pair, "ok", FALSE),
                                        SetQuietly(pair, default)>>])
             ELSE SetupDataTraits(i + 1, d, isFirst, failAt,
                        [st EXCEPT !.lists = ls])

\* Mutant: data_changed fires before _first is cleared.
UpdateDataFiresFirst(v, d, failAt) ==
    LET st == SetupDataTraits(1, d, first[v], failAt,
                 [sel |-> sel[v], lists |-> lists[v], raised |-> FALSE,
                  trace |-> <<>>])
    IN  [sel |-> st.sel, lists |-> st.lists, first |-> FALSE,
         trace |-> st.trace
                   \o <<Fired(v, "update_data", outputs[v], observers, name[v]),
                        Event("_first", v, "False", FALSE)>>,
         raised |-> FALSE]

\* _update_data(self) with self.data = d: the refresh pass.  Nothing when
\* there is no dataset; otherwise the six pairs, then _first is cleared
\* and data_changed fires.  The result holds the selectors, the lists and
\* _first afterwards, the calls made and whether the pass raised.
UpdateData(v, d, failAt) ==
    IF d = None
    THEN [sel |-> sel[v], lists |-> lists[v], first |-> first[v],
          trace |-> <<>>, raised |-> FALSE]
    ELSE LET st == SetupDataTraits(1, d, first[v], failAt,
                     [sel |-> sel[v], lists |-> lists[v], raised |-> FALSE,
                      trace |-> <<>>])
         IN  IF st.raised
             THEN [sel |-> st.sel, lists |-> st.lists, first |-> first[v],
                   trace |-> st.trace, raised |-> TRUE]
             ELSE [sel |-> st.sel, lists |-> st.lists, first |-> FALSE,
                   trace |-> st.trace
                             \o (IF first[v]
                                 THEN <<Event("_first", v, "False", FALSE)>>
                                 ELSE <<>>)
                             \o <<Fired(v, "update_data", outputs[v], observers, name[v])>>,
                   raised |-> FALSE]

\* Mutant: the observer of the old dataset is left in place.
RemoveObserverNever(obs, old, id) == obs

\* `if old is not None: old.remove_observer(self._observer_id)`
RemoveObserver(obs, old, id) ==
    IF old # None
    THEN [obs EXCEPT ![old] = {o \in @ : o.id # id}]
    ELSE obs

\* Mutant: the observer is added on the new dataset before the old one is
\* removed.
ObserverSwapAddFirst(v, old, new, id, tag) ==
    <<Event("add_observer", new, ToString(tag), FALSE),
      Event("messenger.connect", new, v, FALSE)>>
    \o (IF old # None
        THEN <<Event("remove_observer", old, ToString(id), FALSE)>>
        ELSE <<>>)

\* The calls of `if old is not None: old.remove_observer(self._observer_id)`,
\* `new.add_observer('ModifiedEvent', messenger.send)` and
\* `messenger.connect(new_vtk, 'ModifiedEvent', self._fire_data_changed)`.
ObserverSwap(v, old, new, id, tag) ==
    (IF old # None
     THEN <<Event("remove_observer", old, ToString(id), FALSE)>>
     ELSE <<>>)
    \o <<Event("add_observer", new, ToString(tag), FALSE),
         Event("messenger.connect", new, v, FALSE)>>

\* _data_changed(self, old, new), run after the trait has taken `new`.
DataChanged(v, old, new, failAt) ==
    LET up == UpdateData(v, new, failAt)
        tag == nextTag[new]
        removed == RemoveObserver(observers, old, observer_id[v])
    IN  IF up.raised
        THEN [sel |-> up.sel, lists |-> up.lists, first |-> up.first,
              aa_input |-> new, outputs |-> outputs[v],
              observers |-> observers, nextTag |-> nextTag,
              observer_id |-> observer_id[v], connected |-> connected,
              name |-> name[v], raised |-> TRUE,
              trace |-> <<Event("aa.input", new, "set", FALSE)>> \o up.trace]
        ELSE [sel |-> up.sel, lists |-> up.lists, first |-> up.first,
              aa_input |-> new, outputs |-> <<"aa.output">>,
              observers |-> [removed EXCEPT ![new] = @ \cup {[id |-> tag, by |-> v]}],
              nextTag |-> [nextTag EXCEPT ![new] = tag + 1],
              observer_id |-> tag,
              connected |-> connected \cup {<<new, v>>},
              name |-> GetName(new), raised |-> FALSE,
              trace |-> <<Event("aa.input", new, "set", FALSE)>> \o up.trace
                        \o <<Event("outputs", v, "aa.output", FALSE),
                             Fired(v, "data", <<"aa.output">>, observers, name[v])>>
                        \o ObserverSwap(v, old, new, observer_id[v], tag)
                        \o <<Event("name", v, GetName(new), FALSE)>>]

\* The arguments the change handler of a pair gives to _set_data_name:
\* _point_scalars_name_changed calls _set_data_name('scalars', 'point', value).
DataType(pair) ==
    CASE pair \in {"point.scalars", "cell.scalars"} -> "scalars"
      [] pair \in {"point.vectors", "cell.vectors"} -> "vectors"
      [] OTHER -> "tensors"

AttrType(pair) ==
    IF pair \in {"point.scalars", "point.vectors", "point.tensors"}
    THEN "point" ELSE "cell"

\* str.upper() on the words it is used on.
Upper(word) ==
    CASE word = "scalars" -> "SCALARS"
      [] word = "vectors" -> "VECTORS"
      [] word = "tensors" -> "TENSORS"
      [] word = "point" -> "POINT"
      [] OTHER -> "CELL"

\* getattr(table, 'set_active_%s' % data_type)(value) on the attribute table
\* `table` of the dataset.
SetActive(pair, table, value) ==
    [ev |-> "set_active", obj |-> pair, res |-> value, was |-> FALSE,
     table |-> table, method |-> "set_active_" \o DataType(pair)]

\* aa.assign(value, data_type.upper(), attr_type.upper() + '_DATA')
Assign(pair, value) ==
    [ev |-> "aa.assign", obj |-> pair, res |-> value, was |-> FALSE,
     args |-> <<value, Upper(DataType(pair)), Upper(AttrType(pair)) \o "_DATA">>]

\* Mutant: the assigner is called for an empty name too.
SetDataNameAssignsEmpty(v, pair, value, okUpdate, outs, obs, nm) ==
    IF value = None THEN [trace |-> <<>>, raised |-> FALSE]
    ELSE [trace |-> <<SetActive(pair, AttrType(pair) \o "_data", value),
                      Assign(pair, value),
                      Event("aa.update", pair, "ok", FALSE),
                      Fired(v, "select", outs, obs, nm)>>,
          raised |-> FALSE]

\* _set_data_name(self, data_type, attr_type, value) for the pair, after the
\* selector has taken `value`, on a source whose outputs, observers and name
\* are outs, obs and nm.
SetDataNameOn(v, pair, value, okUpdate, outs, obs, nm) ==
    IF value = None THEN [trace |-> <<>>, raised |-> FALSE]
    ELSE IF value = ""
    THEN [trace |-> <<SetActive(pair, AttrType(pair) \o "_data", None),
                      Fired(v, "select", outs, obs, nm)>>,
          raised |-> FALSE]
    ELSE LET table == IF AttrType(pair) = "point" THEN "point_data"
                      ELSE "cell_data"
         IN  IF okUpdate
             THEN [trace |-> <<SetActive(pair, table, value),
                               Assign(pair, value),
                               Event("aa.update", pair, "ok", FALSE),
                               Fired(v, "select", outs, obs, nm)>>,
                   raised |-> FALSE]
             ELSE [trace |-> <<SetActive(pair, table, value),
                               Assign(pair, value),
                               Event("aa.update", pair, "raise", FALSE)>>,
                   raised |-> TRUE]

SetDataName(v, pair, value, okUpdate) ==
    SetDataNameOn(v, pair, value, okUpdate, outputs[v], observers, name[v])

\* ------------------------------------------------------------ persistence
\* The class a child record names.
Kind(obj) ==
    IF is_filter(obj) THEN "Filter"
    ELSE IF isModuleManager(obj) THEN "ModuleManager"
    ELSE "Other"

\* DataSetWriter + gzip_string: the saved bytes, named by the contents they
\* encode.
Encode(d) == Content(d)

\* gunzip_string + DataSetReader: a new dataset object holding the contents.
Decode(z) == IF z = "dA" THEN "rA" ELSE "rB"

\* __get_pure_state__(self): the record of a VTKDataSource.  The assigner,
\* _first and the six candidate lists are popped; the names popped as
\* '_observer' and '_<pair>_name' are not attributes of the object, so
\* _observer_id and the six selectors stay in the record.
GetPureState(v) ==
    [data |-> IF data[v] = None THEN None ELSE Encode(data[v]),
     sel |-> sel[v],
     observer_id |-> observer_id[v],
     name |-> name[v],
     children |-> [i \in DOMAIN children[v] |-> Kind(children[v][i])]]

\* The object handle_children_state builds for a child record.
Built(kind) == IF kind = "Filter" THEN "g1" ELSE "m2"

\* handle_children_state(self.children, state.children) on a Source without
\* children: an object is built for every child record and the list is
\* extended with them, which runs the children hook on them.
RestoreChildren(self, kinds, run, scn, src, inp) ==
    LET built == [i \in DOMAIN kinds |-> Built(kinds[i])]
        h == HandleChildren(self, <<>>, built, <<>>,
                            [i \in DOMAIN kinds |-> TRUE], run, scn, src, inp)
    IN  [children |-> built, running |-> h.running, scene |-> h.scene,
         source |-> h.source, inputs |-> h.inputs,
         alive |-> alive \cup {o \in Range(built) : isModuleManager(o)},
         trace |-> [i \in DOMAIN built |->
                       Event("attach", built[i], kinds[i], FALSE)] \o h.trace]

\* The state of source w that __set_pure_state__ works on.
Before(w) ==
    [data |-> data[w], sel |-> sel[w], lists |-> lists[w], first |-> first[w],
     aa_input |-> aa_input[w], outputs |-> outputs[w], observers |-> observers,
     nextTag |-> nextTag, observer_id |-> observer_id[w],
     connected |-> connected, name |-> name[w],
     children |-> children[w], running |-> running, scene |-> scene,
     source |-> source, inputs |-> inputs, alive |-> alive,
     trace |-> <<>>, raised |-> FALSE]

\* `z = state.data; if z is not None: ...; self.data = r.output`: the
\* dataset is decoded and assigned, which runs _data_changed.
RestoreData(w, state, st, failAt) ==
    IF st.raised \/ state.data = None THEN st
    ELSE LET new == Decode(state.data)
             r == DataChanged(w, st.data, new, failAt)
         IN  [st EXCEPT !.data = new, !.sel = r.sel, !.lists = r.lists,
                        !.first = r.first, !.aa_input = r.aa_input,
                        !.outputs = r.outputs, !.observers = r.observers,
                        !.nextTag = r.nextTag, !.observer_id = r.observer_id,
                        !.connected = r.connected, !.name = r.name,
                        !.raised = r.raised,
                        !.trace = st.trace
                                  \o <<Event("restore.data", w, new, FALSE)>>
                                  \o r.trace]

\* set_state for the selectors from pair i on: a selector that differs from
\* the saved value takes it, if it is among the candidates, and its change
\* hook runs; hookFail is the pair whose hook raises (0: none).
RECURSIVE RestoreSelectors(_, _, _, _, _)
RestoreSelectors(i, w, state, st, hookFail) ==
    IF i > Len(Pairs) \/ st.raised THEN st
    ELSE LET pair == Pairs[i]
             value == state.sel[pair]
             set == <<Event("set_state", pair, value, FALSE)>>
             hook == SetDataNameOn(w, pair, value, hookFail # i,
                                   st.outputs, st.observers, st.name)
         IN  IF value = st.sel[pair]
             THEN RestoreSelectors(i + 1, w, state,
                     [st EXCEPT !.trace = @ \o set], hookFail)
             ELSE IF value \notin Range(st.lists[pair])
             THEN [st EXCEPT !.raised = TRUE,
                             !.trace = @ \o set
                                 \o <<Event("TraitError", pair, value, FALSE)>>]
             ELSE RestoreSelectors(i + 1, w, state,
                     [st EXCEPT !.sel[pair] = value,
                                !.raised = hook.raised,
                                !.trace = @ \o set \o hook.trace], hookFail)

\* `set_state(self, state, ignore=['children', 'data'])`: every other field
\* of the record is set on the object.
RestoreFields(w, state, st, hookFail) ==
    IF st.raised THEN st
    ELSE RestoreSelectors(1, w, state,
            [st EXCEPT !.name = state.name,
                       !.observer_id = state.observer_id,
                       !.trace = @ \o <<Event("set_state", "name", state.name, FALSE),
                                        Event("set_state", "_observer_id",
                                              ToString(state.observer_id), FALSE)>>],
            hookFail)

\* `handle_children_state(self.children, state.children)` and the children's
\* own state.
RestoreKids(w, state, st) ==
    IF st.raised THEN st
    ELSE LET r == RestoreChildren(w, state.children, st.running, st.scene,
                                  st.source, st.inputs)
         IN  [st EXCEPT !.children = r.children, !.running = r.running,
                        !.scene = r.scene, !.source = r.source,
                        !.inputs = r.inputs, !.alive = r.alive,
                        !.trace = @ \o r.trace]

\* Mutant: the fields are set before the dataset is assigned.
VSetPureStateFieldsFirst(w, state, failAt, hookFail) ==
    RestoreKids(w, state,
        RestoreData(w, state,
            RestoreFields(w, state, Before(w), hookFail), failAt))

\* VTKDataSource.__set_pure_state__(self, state)
VSetPureState(w, state, failAt, hookFail) ==
    RestoreKids(w, state,
        RestoreFields(w, state,
            RestoreData(w, state, Before(w), failAt), hookFail))

\* The number of times a ModifiedEvent on d reaches _fire_data_changed of
\* w: each native observer of d calls messenger.send once, which calls every
\* callback connected for d.
Deliveries(d, w) ==
    IF <<d, w>> \in connected THEN Cardinality(observers[d]) ELSE 0

\* data.modified() on d: the data_changed events it fires, source by source.
Modified(d) ==
    LET to(w) == Repeat(Fired(w, "modified", outputs[w], observers, name[w]),
                        Deliveries(d, w))
    IN  to("v1") \o to("v2")

\* ---------------------------------------------------------------- actions
Init ==
    /\ running = [o \in Objects |-> FALSE]
    /\ children = [p \in Parents |-> <<>>]
    /\ scene = [o \in Objects |-> IF o \in Sources \cup VSources THEN "scene1" ELSE None]
    /\ source = [m \in Managers |-> None]
    /\ inputs = [f \in Filters \cup RestoredFilters |-> <<>>]
    /\ alive = {}
    /\ streak = NoStreak
    /\ last = [op |-> "init", self |-> None, arg |-> None, wasRunning |-> FALSE,
               raised |-> FALSE, removed |-> <<>>, added |-> <<>>]
    /\ trace = <<>>
    /\ data = [v \in VSources |-> None]
    /\ sel = [v \in VSources |-> [p \in PairSet |-> ""]]
    /\ lists = [v \in VSources |-> [p \in PairSet |-> <<>>]]
    /\ first = [v \in VSources |-> TRUE]
    /\ observer_id = [v \in VSources |-> NoObserver]
    /\ aa_input = [v \in VSources |-> None]
    /\ outputs = [v \in VSources |-> <<>>]
    /\ name = [v \in VSources |-> GetName(None)]
    /\ observers = [d \in Natives |-> {}]
    /\ nextTag = [d \in Natives |-> 1]
    /\ connected = {}
    /\ failed = {}

\* s.add_child(c)
AddChild(s, c) ==
    /\ AddChildFits(s, c)
    /\ \E okNew \in Flag(running[s] /\ isModule(c) /\ ~HasManager(children[s])) :
       \E okHook \in Flag(running[s]) :
         LET r == AddChildResult(s, c, okNew, okHook)
         IN  /\ Apply(r)
             /\ streak' = IF isModule(c) THEN StreakAfter(s, c, r) ELSE NoStreak
             /\ last' = [op |-> "add_child", self |-> s, arg |-> c,
                         wasRunning |-> running[s], raised |-> r.raised,
                         removed |-> <<>>, added |-> r.added]
             /\ UNCHANGED vtkVars

\* s.add_module(m)
AddModule(s, m) ==
    /\ AddModuleFits(s)
    /\ \E okNew \in Flag(running[s] /\ ~HasManager(children[s])) :
       \E okHook \in Flag(running[s] /\ ~HasManager(children[s])) :
         LET r == AddModuleResult(s, m, okNew, okHook)
         IN  /\ Apply(r)
             /\ streak' = StreakAfter(s, m, r)
             /\ last' = [op |-> "add_module", self |-> s, arg |-> m,
                         wasRunning |-> running[s], raised |-> r.raised,
                         removed |-> <<>>, added |-> r.added]
             /\ UNCHANGED vtkVars

\* s.start()
Start(s) ==
    \E ok \in Outcomes(Len(children[s]), ~running[s]) :
        LET r == SourceStart(s, running, ok)
        IN  /\ running' = r.running
            /\ trace' = r.trace
            /\ last' = [NoOp("start", s) EXCEPT !.raised = r.raised]
            /\ streak' = NoStreak
            /\ UNCHANGED <<children, scene, source, inputs, alive>>
    /\ UNCHANGED vtkVars
            /\ UNCHANGED vtkVars

\* s.stop()
Stop(s) ==
    \E ok \in StopOutcomes(Len(children[s]), running[s]) :
        LET r == SourceStop(s, running, ok)
        IN  /\ running' = r.running
            /\ trace' = r.trace
            /\ last' = [NoOp("stop", s) EXCEPT !.raised = r.raised]
            /\ streak' = NoStreak
            /\ UNCHANGED <<children, scene, source, inputs, alive>>
    /\ UNCHANGED vtkVars
            /\ UNCHANGED vtkVars

\* del s.children[i]: the list changes first, then _children_items_changed
\* hands the removed object to the hook.
RemoveChild(s, i) ==
    /\ i \in DOMAIN children[s]
    /\ \E okStop \in BOOLEAN :
         LET h == HandleChildren(s, <<children[s][i]>>, <<>>, <<okStop>>, <<>>,
                                 running, scene, source, inputs)
         IN  /\ Apply([children |-> [children EXCEPT ![s] = RemoveAt(@, i)],
                       running |-> h.running, scene |-> h.scene,
                       source |-> h.source, inputs |-> h.inputs,
                       alive |-> alive, trace |-> h.trace])
             /\ streak' = NoStreak
             /\ last' = [op |-> "remove", self |-> s, arg |-> children[s][i],
                         wasRunning |-> running[s], raised |-> h.raised,
                         removed |-> <<children[s][i]>>, added |-> <<>>]
             /\ UNCHANGED vtkVars

\* s.children = new: _children_changed hands the old and the new list to
\* the hook.
SetChildren(s, new) ==
    /\ new # children[s]
    /\ \E okStop \in StopOutcomes(Len(children[s]), TRUE) :
       \E okStart \in Outcomes(Len(new), running[s]) :
         LET h == HandleChildren(s, children[s], new, okStop, okStart,
                                 running, scene, source, inputs)
         IN  /\ Apply([children |-> [children EXCEPT ![s] = new],
                       running |-> h.running, scene |-> h.scene,
                       source |-> h.source, inputs |-> h.inputs,
                       alive |-> alive, trace |-> h.trace])
             /\ streak' = NoStreak
             /\ last' = [op |-> "set_children", self |-> s, arg |-> None,
                         wasRunning |-> running[s], raised |-> h.raised,
                         removed |-> children[s], added |-> new]
             /\ UNCHANGED vtkVars

\* o.start() called on a filter or manager by some other owner of it.
ExternalStart(o) ==
    /\ ~running[o]
    /\ running' = ChildStarted(running, o, TRUE)
    /\ trace' = <<>>
    /\ last' = NoOp("external_start", o)
    /\ streak' = NoStreak
    /\ UNCHANGED <<children, scene, source, inputs, alive>>
    /\ UNCHANGED vtkVars

\* o.stop() called on a filter or manager by some other owner of it.
ExternalStop(o) ==
    /\ running[o]
    /\ running' = ChildStopped(running, o, TRUE)
    /\ trace' = <<>>
    /\ last' = NoOp("external_stop", o)
    /\ streak' = NoStreak
    /\ UNCHANGED <<children, scene, source, inputs, alive>>
    /\ UNCHANGED vtkVars

\* Mutant: a scene change that stays with the Source.
SceneChangedSelfOnly(self, new, scn) == [scn EXCEPT ![self] = new]

\* _scene_changed(self, old, new), run after the trait has taken the new
\* value: every object in children is given the new scene.
SceneChanged(self, new, scn) ==
    [o \in DOMAIN scn |->
        IF o = self \/ o \in Range(children[self]) THEN new ELSE scn[o]]

\* s.scene = new
SceneChange(s, new) ==
    /\ new # scene[s]
    /\ scene' = SceneChanged(s, new, scene)
    /\ trace' = [i \in DOMAIN children[s] |->
                    Event("obj.scene", children[s][i], new, running[children[s][i]])]
    /\ last' = [NoOp("scene_change", s) EXCEPT !.arg = new]
    /\ streak' = NoStreak
    /\ UNCHANGED <<running, children, source, inputs, alive>>
    /\ UNCHANGED vtkVars

\* What a refresh pass on v can meet in dataset d: no native failure (0) or
\* aa.update() raising at one of the pairs it is called for.
FailPoints(d) == {0} \cup (IF d = None THEN {} ELSE Assigned(d))

\* v.data = d with d another dataset than the current one: the trait takes d
\* and _data_changed(old, d) runs.
DataAssign(v, d) ==
    /\ d # data[v]
    /\ nextTag[d] <= MaxTag
    /\ \E failAt \in FailPoints(d) :
         LET r == DataChanged(v, data[v], d, failAt)
         IN  /\ data' = [data EXCEPT ![v] = d]
             /\ sel' = [sel EXCEPT ![v] = r.sel]
             /\ lists' = [lists EXCEPT ![v] = r.lists]
             /\ first' = [first EXCEPT ![v] = r.first]
             /\ aa_input' = [aa_input EXCEPT ![v] = r.aa_input]
             /\ outputs' = [outputs EXCEPT ![v] = r.outputs]
             /\ observers' = r.observers
             /\ nextTag' = r.nextTag
             /\ observer_id' = [observer_id EXCEPT ![v] = r.observer_id]
             /\ connected' = r.connected
             /\ name' = [name EXCEPT ![v] = r.name]
             /\ failed' = IF r.raised THEN failed \cup {v} ELSE failed
             /\ trace' = r.trace
             /\ last' = [op |-> "data", self |-> v, arg |-> d,
                         wasRunning |-> running[v], raised |-> r.raised,
                         removed |-> <<>>, added |-> <<>>]
             /\ streak' = NoStreak
             /\ UNCHANGED <<running, children, scene, source, inputs, alive>>

\* v.<pair>_name = value with value one of the candidates and not the
\* current choice: the selector takes it and _set_data_name runs.
SetSelector(v, pair, value) ==
    /\ value \in Range(lists[v][pair])
    /\ value # sel[v][pair]
    /\ \E okUpdate \in Flag(value # "") :
         LET r == SetDataName(v, pair, value, okUpdate)
         IN  /\ sel' = [sel EXCEPT ![v][pair] = value]
             /\ trace' = r.trace
             /\ last' = [op |-> "select", self |-> v, arg |-> pair,
                         wasRunning |-> running[v], raised |-> r.raised,
                         removed |-> <<>>, added |-> <<>>]
             /\ streak' = NoStreak
             /\ UNCHANGED <<running, children, scene, source, inputs, alive>>
             /\ UNCHANGED <<data, lists, first, observer_id, aa_input, outputs,
                            name, observers, nextTag, connected, failed>>

\* v._<pair>_name_changed(None): the change handler called with no value.
NameChangedNone(v, pair) ==
    /\ data[v] # None
    /\ trace' = SetDataName(v, pair, None, TRUE).trace
    /\ last' = [NoOp("name_changed", v) EXCEPT !.arg = pair]
    /\ streak' = NoStreak
    /\ UNCHANGED <<running, children, scene, source, inputs, alive>>
    /\ UNCHANGED vtkVars

\* v.update(): `self.data.modified()` raises the ModifiedEvent of the
\* dataset, which reaches _fire_data_changed once per delivery.
Update(v) ==
    /\ data[v] # None
    /\ trace' = Modified(data[v])
    /\ last' = NoOp("update", v)
    /\ streak' = NoStreak
    /\ UNCHANGED <<running, children, scene, source, inputs, alive>>
    /\ UNCHANGED vtkVars

\* Mutant: start() without its `if self.running: return`.
VStartAlways(v) ==
    \E failAt \in FailPoints(data[v]) :
    \E ok \in Outcomes(Len(children[v]), failAt = 0) :
        LET up == UpdateData(v, data[v], failAt)
            r == IF up.raised
                 THEN [running |-> running, trace |-> <<>>, raised |-> TRUE]
                 ELSE SourceStartAgain(v, running, ok)
        IN  /\ sel' = [sel EXCEPT ![v] = up.sel]
            /\ lists' = [lists EXCEPT ![v] = up.lists]
            /\ first' = [first EXCEPT ![v] = up.first]
            /\ running' = r.running
            /\ trace' = up.trace \o r.trace
            /\ last' = [NoOp("start", v) EXCEPT !.raised = r.raised]
            /\ streak' = NoStreak
            /\ UNCHANGED <<children, scene, source, inputs, alive>>
            /\ UNCHANGED <<data, observer_id, aa_input, outputs, name,
                           observers, nextTag, connected, failed>>

\* v.start(): nothing when running; otherwise the refresh pass, then the
\* start of Source.
VStart(v) ==
    \E failAt \in (IF running[v] THEN {0} ELSE FailPoints(data[v])) :
    \E ok \in Outcomes(Len(children[v]), ~running[v] /\ failAt = 0) :
        LET up == IF running[v]
                  THEN [sel |-> sel[v], lists |-> lists[v], first |-> first[v],
                        trace |-> <<>>, raised |-> FALSE]
                  ELSE UpdateData(v, data[v], failAt)
            r == IF up.raised
                 THEN [running |-> running, trace |-> <<>>, raised |-> TRUE]
                 ELSE SourceStart(v, running, ok)
        IN  /\ sel' = [sel EXCEPT ![v] = up.sel]
            /\ lists' = [lists EXCEPT ![v] = up.lists]
            /\ first' = [first EXCEPT ![v] = up.first]
            /\ running' = r.running
            /\ trace' = up.trace \o r.trace
            /\ last' = [NoOp("start", v) EXCEPT !.raised = r.raised]
            /\ streak' = NoStreak
            /\ UNCHANGED <<children, scene, source, inputs, alive>>
            /\ UNCHANGED <<data, observer_id, aa_input, outputs, name,
                           observers, nextTag, connected, failed>>

\* Mutant: the children are attached before the other fields are set.
SourceSetPureStateKidsFirst(s, kinds) ==
    LET r == RestoreChildren(s, kinds, running, scene, source, inputs)
    IN  [r EXCEPT !.trace = @ \o <<Event("set_state", "fields", s, FALSE)>>]

\* Source.__set_pure_state__(self, state): set_state on everything but the
\* children, then the children.
SourceSetPureState(s, kinds) ==
    LET r == RestoreChildren(s, kinds, running, scene, source, inputs)
    IN  [r EXCEPT !.trace = <<Event("set_state", "fields", s, FALSE)>> \o @]

\* The objects built for the child records are not in use yet.
CanBuild(kinds) ==
    \A k \in Range(kinds) :
        /\ Built(k) \notin alive
        /\ is_filter(Built(k)) => inputs[Built(k)] = <<>>

\* A source as its constructor leaves it.
FreshSource(s) == children[s] = <<>> /\ ~running[s]

FreshVTK(w) ==
    /\ FreshSource(w)
    /\ data[w] = None /\ first[w]
    /\ observer_id[w] = NoObserver
    /\ \A pair \in PairSet : sel[w][pair] = ""

\* The child records of a saved Source: at most one of each class.
KindLists ==
    {q \in SeqsUpTo({"Filter", "ModuleManager"}, MaxChildren) :
        \A i, j \in DOMAIN q : q[i] = q[j] => i = j}

\* s.__set_pure_state__(state) on a new Source, for a record with the child
\* records `kinds`.
SourceRestore(s, kinds) ==
    /\ FreshSource(s)
    /\ CanBuild(kinds)
    /\ LET r == SourceSetPureState(s, kinds)
       IN  /\ Apply([r EXCEPT !.children = [children EXCEPT ![s] = r.children]])
           /\ last' = [op |-> "restore", self |-> s, arg |-> None,
                       wasRunning |-> running[s], raised |-> FALSE,
                       removed |-> <<>>, added |-> r.children]
    /\ streak' = NoStreak
    /\ UNCHANGED vtkVars

\* w.__set_pure_state__(v.__get_pure_state__()) on a new VTKDataSource w,
\* for a source v that has a dataset.
VRestore(v, w) ==
    /\ v # w
    /\ data[v] # None
    /\ FreshVTK(w)
    /\ CanBuild(GetPureState(v).children)
    /\ \E failAt \in FailPoints(Decode(Encode(data[v]))) :
       \E hookFail \in 0..Len(Pairs) :
       \E st \in {VSetPureState(w, GetPureState(v), failAt, hookFail)} :
             /\ Apply([children |-> [children EXCEPT ![w] = st.children],
                       running |-> st.running, scene |-> st.scene,
                       source |-> st.source, inputs |-> st.inputs,
                       alive |-> st.alive, trace |-> st.trace])
             /\ data' = [data EXCEPT ![w] = st.data]
             /\ sel' = [sel EXCEPT ![w] = st.sel]
             /\ lists' = [lists EXCEPT ![w] = st.lists]
             /\ first' = [first EXCEPT ![w] = st.first]
             /\ aa_input' = [aa_input EXCEPT ![w] = st.aa_input]
             /\ outputs' = [outputs EXCEPT ![w] = st.outputs]
             /\ observers' = st.observers
             /\ nextTag' = st.nextTag
             /\ observer_id' = [observer_id EXCEPT ![w] = st.observer_id]
             /\ connected' = st.connected
             /\ name' = [name EXCEPT ![w] = st.name]
             /\ failed' = IF st.raised THEN failed \cup {w} ELSE failed
             /\ last' = [op |-> "restore", self |-> w, arg |-> v,
                         wasRunning |-> running[w], raised |-> st.raised,
                         removed |-> <<>>, added |-> st.children]
             /\ streak' = NoStreak

\* The lifecycle of one Source with a filter and the manager that
\* add_module builds: every operation, one module.
Next ==
    \/ \E s \in Sources : \E c \in Attachable \cup {"mod1"} \cup Primary : AddChild(s, c)
    \/ \E s \in Sources : AddModule(s, "mod1")
    \/ \E s \in Sources : Start(s)
    \/ \E s \in Sources : Stop(s)
    \/ \E o \in Attachable : ExternalStart(o)

Spec == Init /\ [][Next]_vars

\* The managers of one Source: a manager "m1" built by the application
\* beside the one add_module builds, two modules, no filters.
InitModules ==
    /\ Init!1 /\ Init!2 /\ Init!3 /\ Init!4 /\ Init!5
    /\ alive = {"m1"}
    /\ Init!7 /\ Init!8 /\ Init!9
    /\ Init!10 /\ Init!11 /\ Init!12 /\ Init!13 /\ Init!14 /\ Init!15
    /\ Init!16 /\ Init!17 /\ Init!18 /\ Init!19 /\ Init!20 /\ Init!21

NextModules ==
    \/ \E s \in Sources : \E c \in alive \cup Modules : AddChild(s, c)
    \/ \E s \in Sources : \E m \in Modules : AddModule(s, m)
    \/ \E s \in Sources : Start(s)
    \/ \E s \in Sources : Stop(s)
    \/ \E o \in alive : ExternalStart(o)

SpecModules == InitModules /\ [][NextModules]_vars

\* The lists assigned wholesale: distinct objects, at most MaxReplace.
Replacements ==
    {q \in SeqsUpTo(Attachable, MaxReplace) :
        \A i, j \in DOMAIN q : q[i] = q[j] => i = j}

\* The children list of one Source edited directly: item-wise removal and
\* wholesale replacement, over a filter and an existing manager.
NextReplace ==
    \/ \E s \in Sources : \E c \in Attachable : AddChild(s, c)
    \/ \E s \in Sources : Start(s)
    \/ \E s \in Sources : Stop(s)
    \/ \E s \in Sources : \E i \in 1..MaxChildren : RemoveChild(s, i)
    \/ \E s \in Sources : \E new \in Replacements : SetChildren(s, new)
    \/ \E o \in Attachable : ExternalStart(o)

SpecReplace == InitModules /\ [][NextReplace]_vars

\* One Source whose scene changes while its children list is edited: a
\* filter, an existing manager and the manager that add_module builds when
\* the Source has none.  The Source is never started.
NextScene ==
    \/ \E s \in Sources : \E c \in Attachable : AddChild(s, c)
    \/ \E s \in Sources : ~HasManager(children[s]) /\ AddModule(s, "mod1")
    \/ \E s \in Sources : \E i \in 1..MaxChildren : RemoveChild(s, i)
    \/ \E s \in Sources : \E new \in Replacements : SetChildren(s, new)
    \/ \E s \in Sources : \E new \in Scenes : SceneChange(s, new)

SpecScene == InitModules /\ [][NextScene]_vars

\* One VTKDataSource with a filter below it: datasets assigned and
\* replaced, selectors chosen, update, start and stop.
NextVTK ==
    \/ \E v \in Primary : \E d \in Datasets : DataAssign(v, d)
    \/ \E v \in Primary : \E pair \in PairSet : \E value \in {"", "t", "p", "v"} :
          SetSelector(v, pair, value)
    \/ \E v \in Primary : Update(v)
    \/ \E v \in Primary : VStart(v)
    \/ \E v \in Primary : Stop(v)
    \/ \E v \in Primary : \E c \in Filters : AddChild(v, c)

SpecVTK == Init /\ [][NextVTK]_vars

\* Saving and restoring, one restore per run and nothing after it: either a
\* saved Source is restored into the new "s1", or "v1" is given datasets,
\* selections, a filter and a manager and then its saved state is restored
\* into the new "v2".
NextPersist ==
    \/ /\ \A v \in VSources : FreshVTK(v)
       /\ \E s \in Sources : \E kinds \in KindLists : SourceRestore(s, kinds)
    \/ /\ \A s \in Sources : FreshSource(s)
       /\ \A w \in VSources \ Primary : FreshVTK(w)
       /\ \/ \E v \in Primary : \E d \in Datasets : DataAssign(v, d)
          \/ \E v \in Primary : \E pair \in PairSet : \E value \in {"", "t", "p", "v"} :
                SetSelector(v, pair, value)
          \/ \E v \in Primary : \E c \in Attachable \ Range(children[v]) : AddChild(v, c)
          \/ \E v \in Primary : \E w \in VSources : VRestore(v, w)

SpecPersist == InitModules /\ [][NextPersist]_vars

\* Two VTKDataSources and the datasets dA and dB: each is given datasets,
\* which may be the one the other has or had, and update() is called.
NextShare ==
    \/ \E v \in VSources : \E d \in Datasets : DataAssign(v, d)
    \/ \E v \in VSources : Update(v)

SpecShare == Init /\ [][NextShare]_vars

\* The selectors of one VTKDataSource: datasets assigned and replaced,
\* names chosen, and the change handlers called without a value.
NextSelect ==
    \/ \E v \in Primary : \E d \in Datasets : DataAssign(v, d)
    \/ \E v \in Primary : \E pair \in PairSet : \E value \in {"", "t", "p", "v"} :
          SetSelector(v, pair, value)
    \/ \E v \in Primary : \E pair \in PairSet : NameChangedNone(v, pair)

SpecSelect == Init /\ [][NextSelect]_vars

\* ------------------------------------------------------------ properties
\* What the last handler was.
IsAddCall == last.op \in {"add_child", "add_module"}

IsAddModuleCall ==
    last.op = "add_module" \/ (last.op = "add_child" /\ isModule(last.arg))

Returned == ~last.raised

\* The handler asked obj to start and obj raised.
StartRaised(obj) ==
    \E i \in DOMAIN trace :
        trace[i].ev = "start" /\ trace[i].obj = obj /\ trace[i].res = "raise"

\* The objects whose start() / stop() the handler called, in call order.
Called(e) ==
    LET picked == SelectSeq(trace, LAMBDA x : x.ev = e)
    IN  [i \in DOMAIN picked |-> picked[i].obj]

Kids(self) == Range(children[self])

\* C1: add_child / add_module on a running Source: every object the call
\* puts into children is, when the call returns, in children and running,
\* unless its own start() raised (which the call swallowed); and the call
\* stops no object that was already a running child.  Over a sequence of
\* such calls every child they attached is therefore running.
C1_Step ==
    (last'.op \in {"add_child", "add_module"} /\ last'.wasRunning /\ ~last'.raised)
    => /\ \A c \in Range(last'.added) :
            /\ c \in Range(children'[last'.self])
            /\ running'[c] \/ StartRaised(c)'
       /\ \A c \in Kids(last'.self) : running[c] => running'[c]
       /\ running'[last'.self]

C1_AddedChildrenRun == [][C1_Step]_vars

\* C1 witness: add_child on a running Source has appended a filter that was
\* not running and now is.
C1_Witness ==
    /\ last.op = "add_child" /\ last.wasRunning /\ Returned
    /\ last.added = <<last.arg>> /\ is_filter(last.arg)
    /\ trace = <<Event("start", last.arg, "ok", FALSE)>>
    /\ running[last.arg]

\* C2: when an item-wise removal or a wholesale replacement of children
\* returns, every object that left the list is not running, whether or not
\* the Source is running.
C2_RemovedStopped ==
    (last.op \in {"remove", "set_children"} /\ Returned)
    => \A c \in Range(last.removed) \ Range(last.added) : ~running[c]

\* C2 witness: a Source that is not running has dropped a child that was
\* running, and the child is stopped.
C2_Witness ==
    /\ last.op \in {"remove", "set_children"} /\ ~last.wasRunning /\ Returned
    /\ \E i \in DOMAIN trace :
          /\ trace[i].ev = "stop" /\ trace[i].was
          /\ trace[i].obj \notin Range(last.added)
          /\ ~running[trace[i].obj]

\* C3 as claimed: after any start() or stop() returns, every child's running
\* flag equals the Source's.
C3_ChildrenMatchParent ==
    (last.op \in {"start", "stop"} /\ Returned)
    => \A c \in Kids(last.self) : running[c] = running[last.self]

\* C3 amended: after a start() that found the Source not running, the
\* Source is running and so is every child whose start() did not raise;
\* after a stop() that found the Source running and returned, the Source
\* and all its children are not running.
C3_AfterTransition ==
    /\ (last.op = "start" /\ ~last.wasRunning)
       => /\ Returned
          /\ running[last.self]
          /\ \A c \in Kids(last.self) : running[c] \/ StartRaised(c)
    /\ (last.op = "stop" /\ last.wasRunning /\ Returned)
       => /\ ~running[last.self]
          /\ \A c \in Kids(last.self) : ~running[c]

\* C3 witness: a stop() has taken a running Source and its running child
\* down.
C3_Witness ==
    /\ last.op = "stop" /\ last.wasRunning /\ Returned
    /\ trace # <<>> /\ trace[1].was
    /\ ~running[trace[1].obj] /\ ~running[last.self]

\* C4: a start() that directly follows a start() of the same Source, and a
\* stop() that directly follows a stop() that returned, changes no running
\* flag and no children list and calls no child.
C4_Step ==
    (/\ last.op \in {"start", "stop"} /\ ~last.raised
     /\ last'.op = last.op /\ last'.self = last.self)
    => /\ running' = running
       /\ children' = children
       /\ trace' = <<>>
       /\ ~last'.raised

C4_Idempotent == [][C4_Step]_vars

\* C4 witness: start() was called on a Source that was already running and
\* has children; it called none of them.
C4_Witness ==
    /\ last.op = "start" /\ last.wasRunning
    /\ children[last.self] # <<>>
    /\ trace = <<>>

\* The ModuleManagers among the children of a Source, by position.
ManagerSlots(self) ==
    {i \in DOMAIN children[self] : isModuleManager(children[self][i])}

LastManagerOf(kids) ==
    kids[CHOOSE i \in DOMAIN kids :
            /\ kids[i] \in Managers
            /\ \A j \in DOMAIN kids : j > i => kids[j] \notin Managers]

\* C5, first half: after N add_module calls in a row on a Source that had
\* no ModuleManager child, the Source has exactly one ModuleManager child
\* and its children are the N modules in call order.
C5_OneManager ==
    streak.on # None
    => /\ Cardinality(ManagerSlots(streak.on)) = 1
       /\ \A i \in ManagerSlots(streak.on) :
             children[children[streak.on][i]] = streak.mods

\* C5, second half: with one or more ModuleManager children, add_module
\* appends the module to the last of them and builds no manager.
C5_Step ==
    (/\ last'.op = "add_module" \/ (last'.op = "add_child" /\ isModule(last'.arg))
     /\ ~last'.raised
     /\ ManagerSlots(last'.self) # {})
    => LET mm == LastManagerOf(children[last'.self])
       IN  /\ children'[mm] = Append(children[mm], last'.arg)
           /\ \A p \in Parents \ {mm} : children'[p] = children[p]
           /\ alive' = alive

C6_ManagerMatchesSource ==
    (IsAddModuleCall /\ Returned)
    => running[LastManagerOf(children[last.self])] = running[last.self]

\* C6 amended: when add_module builds a new ModuleManager, that manager is
\* running iff the Source is, once add_module returns; when it reuses a
\* manager it changes no running flag.
C6_Step ==
    (/\ last'.op = "add_module" \/ (last'.op = "add_child" /\ isModule(last'.arg))
     /\ ~last'.raised)
    => IF last'.added # <<>>
       THEN /\ last'.added = <<LastManagerOf(children'[last'.self])>>
            /\ running'[last'.added[1]] = running'[last'.self]
       ELSE running' = running

C6_NewManagerMatches == [][C6_Step]_vars

\* C6 witness: add_module on a running Source has built a manager, which is
\* running.
C6_Witness ==
    /\ last.op = "add_module" /\ last.wasRunning /\ Returned
    /\ last.added # <<>>
    /\ running[last.added[1]] /\ running[last.self]

\* C7: a start() that raises is swallowed.  Source.start() on a Source that
\* is not running calls start() on every child, in order, returns, and
\* leaves the Source running; the children hook on a running Source calls
\* start() on every added object and gives each the scene; an exception
\* leaves start() never, and the hook only from a stop().
C7_StartFailuresSwallowed ==
    /\ (last.op = "start" /\ ~last.wasRunning)
       => /\ Returned
          /\ running[last.self]
          /\ Called("start") = children[last.self]
    /\ (last.op \in {"remove", "set_children"} /\ last.wasRunning)
       => IF last.raised
          THEN trace # <<>> /\ trace[Len(trace)] .ev = "stop"
          ELSE /\ Called("start") = last.added
               /\ \A c \in Range(last.added) : scene[c] = scene[last.self]
    /\ (last.op = "add_child" /\ ~isModule(last.arg) /\ last.wasRunning)
       => /\ Returned
          /\ Called("start") = last.added

\* C7 witness: the first of two objects started raised, and the second was
\* started all the same and runs.
C7_Witness ==
    /\ last.op \in {"start", "set_children"} /\ Returned
    /\ running[last.self]
    /\ \E i \in DOMAIN trace :
          /\ trace[i].ev = "start" /\ trace[i].res = "raise"
          /\ i < Len(trace)
          /\ trace[i + 1].ev = "start" /\ trace[i + 1].res = "ok"
          /\ ~trace[i + 1].was
          /\ trace[i + 1].obj # trace[i].obj
          /\ running[trace[i + 1].obj]

\* The native ModifiedEvent subscriptions that source v made and that are
\* still in place, each with the dataset it is on.
Subscriptions(v) ==
    UNION {{<<d, o.id>> : o \in {x \in observers[d] : x.by = v}} : d \in Natives}

\* C8: once data assignments have given a VTKDataSource a dataset, and none
\* of them raised, the source has exactly one ModifiedEvent subscription in
\* place: it is on the current dataset, _observer_id is its token, and none
\* is left on a previous dataset.
C8_OneSubscription ==
    \A v \in VSources :
        (data[v] # None /\ v \notin failed)
        => Subscriptions(v) = {<<data[v], observer_id[v]>>}

\* A dataset replaced by another: the subscription made on dB is gone and
\* the one on dA is the second made there.
C8_Witness ==
    /\ last.op = "data" /\ last.self = "v1" /\ ~last.raised
    /\ "v1" \notin failed
    /\ data["v1"] = "dA"
    /\ nextTag["dB"] > 1
    /\ observers["dB"] = {}
    /\ observer_id["v1"] = 2
    /\ Subscriptions("v1") = {<<"dA", 2>>}

\* C9 as stated: with a dataset in place, every selector is empty or names
\* an array that attribute discovery finds for its pair on the current
\* dataset.  (Sources whose assignment raised are left aside.)
C9_SelectorsAmongCandidates ==
    \A v \in VSources :
        (data[v] # None /\ v \notin failed)
        => \A pair \in PairSet :
              \/ sel[v][pair] = ""
              \/ sel[v][pair] \in Range(Arrays(data[v], pair))

\* A step that ran the refresh pass of v to its end on a dataset.
PassReturned(v) ==
    /\ last'.self = v
    /\ ~last'.raised
    /\ data'[v] # None
    /\ \/ last'.op = "data"
       \/ last'.op = "start" /\ ~last'.wasRunning

C10_Step ==
    \A v \in VSources :
        PassReturned(v)
        => \A pair \in PairSet :
              LET candidates == Arrays(data'[v], pair)
                  old == sel[v][pair]
                  new == sel'[v][pair]
              IN  /\ (first[v] /\ old = "" /\ candidates # <<>>)
                        => new = candidates[1]
                  /\ (~first[v] /\ old # "" /\ old \in Range(candidates))
                        => new = old
                  /\ (~first[v] /\ old = "") => new = ""

\* C10: selectors are defaulted on the first refresh pass only.  On the
\* pass run while _first is set, an empty selector whose pair has a real
\* candidate becomes the first candidate; on a later pass, run by start() or
\* by a data assignment, a non-empty selector still among the candidates
\* keeps its value and an empty selector stays empty.
C10_DefaultOnFirstPassOnly == [][C10_Step]_vars

\* dB assigned first and then dA: the first pass chose "p" and found no
\* vectors; the later pass kept "p", which is not the first scalar of dA,
\* and left the vectors selector empty although dA has the vectors "v".
C10_Witness ==
    /\ last.op = "data" /\ last.self = "v1" /\ ~last.raised
    /\ data["v1"] = "dA"
    /\ ~first["v1"]
    /\ sel["v1"]["point.scalars"] = "p"
    /\ sel["v1"]["point.vectors"] = ""
    /\ lists["v1"]["point.vectors"] = <<"v", "">>
    /\ nextTag["dB"] = 2 /\ nextTag["dA"] = 2

\* The data_changed events fired by the last handler.
FiredEvents == {i \in DOMAIN trace : trace[i].ev = "data_changed"}

\* C11 as stated: whenever data_changed fires during a data assignment, the
\* source's outputs already hold the assigner output, its ModifiedEvent
\* observer is already on the new dataset (and on no other), and its name
\* is already the one of the new dataset.
C11_ObserversSeeUpdated ==
    (last.op = "data" /\ ~last.raised)
    => \A i \in FiredEvents :
          trace[i].seen = [outputs |-> <<"aa.output">>,
                           observed |-> {last.arg},
                           name |-> GetName(last.arg)]

\* The positions in the last handler's calls of the events called e.
Idx(e) == {i \in DOMAIN trace : trace[i].ev = e}

\* Everything at the positions A came before everything at the positions B.
Precede(A, B) == \A i \in A : \A j \in B : i < j

\* The last handler was __set_pure_state__ of a VTKDataSource.
IsVRestore == last.op = "restore" /\ last.self \in VSources

\* C12 as stated: the restore of a VTKDataSource sets the scalar fields
\* first, then assigns the dataset, then attaches the children.
C12_FieldsDatasetChildren ==
    IsVRestore
    => /\ Precede(Idx("set_state"), Idx("restore.data"))
       /\ Precede(Idx("restore.data"), Idx("attach"))

\* C12, amended: the restore of a VTKDataSource assigns the decoded dataset
\* first (the whole replacement hook included), then sets the other
\* non-child fields, then attaches the children.
C12_DatasetFieldsChildren ==
    IsVRestore
    => /\ Precede(Idx("restore.data"), Idx("aa.input"))
       /\ Precede(Idx("aa.input") \cup Idx("add_observer") \cup Idx("name"),
                  Idx("set_state"))
       /\ Precede(Idx("set_state"), Idx("attach"))

\* A restore that went through its three stages: dataset, fields, two
\* children.
C12_Witness ==
    /\ IsVRestore /\ ~last.raised
    /\ Idx("restore.data") # {}
    /\ Idx("set_state") # {}
    /\ Cardinality(Idx("attach")) = 2
    /\ Len(children[last.self]) = 2

\* A native call (aa.update) raised during the last handler.
NativeFailure ==
    \E i \in Idx("aa.update") : trace[i].res = "raise"

\* The classes of the children of a source, in order.
Kinds(s) == [i \in DOMAIN children[s] |-> Kind(children[s][i])]

\* C13 as stated: the saved state of a VTKDataSource v, restored into a new
\* instance w, gives w an equal dataset, the six selector values of v,
\* children of the same classes in the same order, and candidate lists
\* equal to those of v although the record does not hold them.  (Sources
\* with a raised assignment and restores stopped by a native failure are
\* left aside.)
C13_RoundTrip ==
    (IsVRestore /\ last.arg \notin failed /\ ~NativeFailure)
    => /\ ~last.raised
       /\ Content(data[last.self]) = Content(data[last.arg])
       /\ sel[last.self] = sel[last.arg]
       /\ Kinds(last.self) = Kinds(last.arg)
       /\ "lists" \notin DOMAIN GetPureState(last.arg)
       /\ lists[last.self] = lists[last.arg]

\* The objects that are instances of the class of the Source s.
SourceObjects == Sources \cup VSources \cup Filters \cup RestoredFilters

C14_Step ==
    (last'.op = "add_child" /\ last'.self \in Sources)
    => LET s == last'.self
           c == last'.arg
           appended == /\ children'[s] = Append(children[s], c)
                       /\ \A p \in Parents \ {s} : children'[p] = children[p]
       IN  IF c \in Filters \cup RestoredFilters THEN appended
           ELSE IF c \in SourceObjects
           THEN /\ children' = children
                /\ Called("scene.add_child")' = <<c>>
           ELSE IF c \in Modules
           THEN /\ c \notin Range(children'[s])
                /\ ~last'.raised
                   => \E m \in Range(children'[s]) :
                         /\ m \in Managers
                         /\ children'[m] = Append(children[m], c)
           ELSE appended

\* C14: add_child routes by kind, in this order: a Filter is appended to
\* children; otherwise an instance of the parent's class is handed to
\* scene.add_child and children is left as it was; otherwise a Module goes
\* through add_module, ending in a ModuleManager's children and never in
\* the parent's; otherwise (a ModuleManager or anything else) the object is
\* appended to children.
C14_AddChildRoutes == [][C14_Step]_vars

\* A module handed to add_child of a Source that has a filter: it ends in
\* the manager after the filter.
C14_Witness ==
    /\ last.op = "add_child" /\ last.self = "s1" /\ last.arg = "mod1"
    /\ ~last.raised
    /\ Len(children["s1"]) = 2
    /\ children["s1"][1] = "f1"
    /\ children["s1"][2] \in Managers
    /\ children[children["s1"][2]] = <<"mod1">>

\* The calls of the dataset-replacement hook that follow the refresh pass.
HookEvents ==
    Idx("outputs") \cup Idx("add_observer") \cup Idx("messenger.connect")
    \cup Idx("name")

\* C15: the restore of a VTKDataSource begins with the assignment of the
\* decoded dataset, whose hook runs in full (the first refresh pass with its
\* defaulting, outputs, observer, name) before any other field is set; the
\* saved selector values are set after that, so they replace the defaults;
\* the children are attached last.  The restore of a plain Source likewise
\* sets its non-child state before it attaches any child.
C15_RestoreOrder ==
    /\ IsVRestore
       => /\ Idx("restore.data") = {1}
          /\ Precede(Idx("_first") \cup HookEvents, Idx("set_state"))
          /\ Precede(Idx("set_state"), Idx("attach"))
          /\ ~last.raised
             => /\ Idx("_first") # {} /\ Idx("add_observer") # {}
                /\ Idx("name") # {} /\ Idx("outputs") # {}
                /\ sel[last.self] = sel[last.arg]
                /\ Len(children[last.self]) = Cardinality(Idx("attach"))
    /\ (last.op = "restore" /\ last.self \in Sources)
       => /\ Idx("set_state") = {1}
          /\ Precede(Idx("set_state"), Idx("attach"))
          /\ Len(children[last.self]) = Cardinality(Idx("attach"))

\* A restore in which the first pass chose "t" for the point scalars and the
\* saved value "p" replaced it, with a child attached after that.
C15_Witness ==
    /\ IsVRestore /\ ~last.raised
    /\ data[last.self] = "rA"
    /\ sel[last.self]["point.scalars"] = "p"
    /\ \E i \in Idx("aa.assign") : \E j \in Idx("set_state") :
          /\ i < j
          /\ trace[i].obj = "point.scalars" /\ trace[i].res = "t"
          /\ trace[j].obj = "point.scalars" /\ trace[j].res = "p"
    /\ Idx("attach") # {}

\* The steps of _data_changed among the calls of the last handler, by name;
\* a data_changed is named by where it was fired ("update_data": at the end
\* of the refresh pass, "data": by _data_changed itself).
StepNames(tr) ==
    LET steps == SelectSeq(tr, LAMBDA e :
                     e.ev \in {"aa.input", "outputs", "data_changed",
                               "remove_observer", "add_observer", "name"})
    IN  [i \in DOMAIN steps |->
            IF steps[i].ev = "data_changed" THEN steps[i].res ELSE steps[i].ev]

\* The calls the refresh pass makes on the dataset and the assigner.
PassCalls(tr) ==
    {i \in DOMAIN tr : tr[i].ev \in {"set_active", "aa.assign", "aa.update", "_first"}}

C16_Step ==
    \A v \in VSources :
        (last'.op = "data" /\ last'.self = v)
        => LET old == data[v]
               new == data'[v]
               tr == trace'
               names == StepNames(tr)
               at(e) == CHOOSE i \in DOMAIN tr : tr[i].ev = e
           IN  /\ tr[1] = Event("aa.input", new, "set", FALSE)
               /\ IF last'.raised
                  THEN names = <<"aa.input">>
                  ELSE /\ names = <<"aa.input", "update_data", "outputs", "data">>
                                  \o (IF old # None THEN <<"remove_observer">>
                                      ELSE <<>>)
                                  \o <<"add_observer", "name">>
                       /\ \A i \in PassCalls(tr) : 1 < i /\ i < at("outputs")
                       /\ old # None
                          => tr[at("remove_observer")] =
                               Event("remove_observer", old,
                                     ToString(observer_id[v]), FALSE)
                       /\ tr[at("add_observer")].obj = new
                       /\ tr[at("add_observer")].res = ToString(observer_id'[v])

\* C16: a data assignment sets the assigner's input to the new dataset, runs
\* the refresh pass, publishes outputs, fires data_changed, removes the
\* observer from the old dataset if there was one, adds the observer on the
\* new dataset and recomputes the name, in this order; when the refresh pass
\* raises, nothing after it is done.
C16_AssignmentOrder == [][C16_Step]_vars

\* dA replaced by dB: the observer on dA is removed before the one on dB is
\* added.
C16_Witness ==
    /\ last.op = "data" /\ last.self = "v1" /\ ~last.raised
    /\ data["v1"] = "dB"
    /\ \E i \in Idx("remove_observer") : \E j \in Idx("add_observer") :
          i < j /\ trace[i].obj = "dA" /\ trace[j].obj = "dB"

\* The number of data_changed events the last handler fired on source w.
FiredOn(w) == Cardinality({i \in FiredEvents : trace[i].obj = w})

\* No dataset is held by two sources.
Exclusive ==
    \A v, w \in VSources : (v # w /\ data[v] # None) => data[v] # data[w]

\* C17 as stated: a ModifiedEvent on a dataset, raised by update() of the
\* source that holds it, fires data_changed exactly once on that source and
\* never on a source that has replaced this dataset by another.  (No
\* assignment has raised and no dataset is held by two sources.)
C17_NoDanglingCallbacks ==
    (last.op = "update" /\ failed = {} /\ Exclusive)
    => \A w \in VSources :
          FiredOn(w) = IF data[w] = data[last.self] THEN 1 ELSE 0

\* What the hook of each selector is to call: the attribute table and its
\* method, and the kind and role given to the assigner.
Expected ==
    [pair \in PairSet |->
        CASE pair = "point.scalars" ->
               [table |-> "point_data", method |-> "set_active_scalars",
                kind |-> "SCALARS", role |-> "POINT_DATA"]
          [] pair = "point.vectors" ->
               [table |-> "point_data", method |-> "set_active_vectors",
                kind |-> "VECTORS", role |-> "POINT_DATA"]
          [] pair = "point.tensors" ->
               [table |-> "point_data", method |-> "set_active_tensors",
                kind |-> "TENSORS", role |-> "POINT_DATA"]
          [] pair = "cell.scalars" ->
               [table |-> "cell_data", method |-> "set_active_scalars",
                kind |-> "SCALARS", role |-> "CELL_DATA"]
          [] pair = "cell.vectors" ->
               [table |-> "cell_data", method |-> "set_active_vectors",
                kind |-> "VECTORS", role |-> "CELL_DATA"]
          [] OTHER ->
               [table |-> "cell_data", method |-> "set_active_tensors",
                kind |-> "TENSORS", role |-> "CELL_DATA"]]

\* The names of the calls tr, in order.
Names(tr) == [i \in DOMAIN tr |-> tr[i].ev]

C18_Step ==
    /\ last'.op = "select"
       => LET v == last'.self
              pair == last'.arg
              value == sel'[v][pair]
              tr == trace'
              e == Expected[pair]
          IN  IF value = ""
              THEN /\ Names(tr) = <<"set_active", "data_changed">>
                   /\ tr[1].table = e.table /\ tr[1].method = e.method
                   /\ tr[1].res = None
                   /\ tr[2].obj = v
              ELSE /\ Names(tr) = <<"set_active", "aa.assign", "aa.update">>
                                  \o (IF last'.raised THEN <<>>
                                      ELSE <<"data_changed">>)
                   /\ tr[1].table = e.table /\ tr[1].method = e.method
                   /\ tr[1].res = value
                   /\ tr[2].args = <<value, e.kind, e.role>>
                   /\ last'.raised <=> tr[3].res = "raise"
                   /\ ~last'.raised => tr[4].obj = v
    /\ last'.op = "name_changed"
       => /\ trace' = <<>>
          /\ UNCHANGED vtkVars

\* C18: when a selector is set to the empty string its hook deactivates the
\* kind on the role's attribute table and fires data_changed, and does not
\* call the assigner; when it is set to a name the hook calls set-active on
\* the role's table, then assign(name, KIND, ROLE_DATA) and update() on the
\* assigner, then fires data_changed; called with None the hook does nothing.
C18_SelectorHook == [][C18_Step]_vars

\* The point vectors of dA deselected by the user.
C18_Witness ==
    /\ last.op = "select" /\ last.self = "v1" /\ last.arg = "point.vectors"
    /\ data["v1"] = "dA"
    /\ sel["v1"]["point.vectors"] = ""
    /\ Names(trace) = <<"set_active", "data_changed">>

\* The last handler ran a refresh pass on a dataset: a data assignment, or
\* start() on a source that was not running.
RanPass ==
    /\ last.self \in VSources
    /\ data[last.self] # None
    /\ last.op = "data" \/ (last.op = "start" /\ ~last.wasRunning)

\* The data_changed events of the last handler fired for the given cause.
FiredFor(cause) == {i \in FiredEvents : trace[i].res = cause}

\* C19: a refresh pass sets the selectors without running their change
\* hooks: no hook's data_changed is fired during it and every selector is
\* set with notification off; the pass fires data_changed exactly once,
\* after the calls for all pairs that have candidates, and after _first has
\* been cleared.  A pass that raises fires nothing.
C19_PassFiresOnce ==
    RanPass
    => /\ FiredFor("select") = {}
       /\ \A i \in Idx("obj.set") : ~trace[i].notify
       /\ IF last.raised THEN FiredFor("update_data") = {}
          ELSE /\ Cardinality(FiredFor("update_data")) = 1
               /\ \A pair \in PairSet :
                     Cardinality({i \in Idx("obj.set") : trace[i].obj = pair})
                       = IF Arrays(data[last.self], pair) # <<>> THEN 1 ELSE 0
               /\ Precede(PassCalls(trace) \cup Idx("obj.set"),
                          FiredFor("update_data"))
               /\ ~first[last.self]

\* The first pass of a source, on dA: two selectors set, _first cleared,
\* then the one data_changed of the pass.
C19_Witness ==
    /\ RanPass /\ ~last.raised /\ last.op = "data"
    /\ data[last.self] = "dA"
    /\ Cardinality(Idx("obj.set")) = 2
    /\ \E i \in Idx("_first") : \E j \in FiredFor("update_data") : i < j

C20_Step ==
    \A v \in VSources :
        (last'.op = "start" /\ last'.self = v)
        => IF running[v]
           THEN /\ trace' = <<>>
                /\ UNCHANGED <<vtkVars, running, children>>
           ELSE LET tr == trace'
                    pass == PassCalls(tr)
                             \cup {i \in DOMAIN tr : tr[i].ev = "obj.set"}
                             \cup {i \in DOMAIN tr : tr[i].ev = "data_changed"}
                    starts == {i \in DOMAIN tr : tr[i].ev = "start"}
                IN  /\ \A i \in pass : \A j \in starts : i < j
                    /\ \A i \in DOMAIN tr :
                          tr[i].ev = "data_changed" => ~tr[i].was
                    /\ IF last'.raised
                       THEN starts = {} /\ ~running'[v]
                       ELSE /\ running'[v]
                            /\ Called("start")' = children[v]
                            /\ data[v] # None
                               => \E i \in DOMAIN tr :
                                     /\ tr[i].ev = "data_changed"
                                     /\ tr[i].res = "update_data"

\* C20: start() of a VTKDataSource that is not running runs the refresh pass
\* to its end before the start() of any child is called and before running
\* is set; on a running source it does nothing: no pass, no data_changed, no
\* child started.
C20_StartRefreshesFirst == [][C20_Step]_vars

\* A stopped source with a dataset and a filter started: the pass fired
\* data_changed while the source was not running, then the filter started.
C20_Witness ==
    /\ last.op = "start" /\ last.self = "v1" /\ ~last.wasRunning
    /\ ~last.raised
    /\ running["v1"]
    /\ data["v1"] # None
    /\ \E i \in FiredFor("update_data") : \E j \in Idx("start") :
          i < j /\ ~trace[i].was /\ trace[j].obj = "f1"

\* The back-references of the children of self are in place.
Attached(self) ==
    \A c \in Kids(self) :
        /\ scene[c] = scene[self]
        /\ isModuleManager(c) => source[c] = self

ReplacementRaised == last.op = "set_children" /\ last.raised

\* C21 amended: no children are attached at construction, and every
\* add_child, add_module, removal, replacement and scene change keeps the
\* back-references of the children in place, except a wholesale replacement
\* whose hook is left by the exception of a removed child's stop(); a
\* replacement that returns puts them in place whatever they were.
C21_Step ==
    /\ (~ReplacementRaised') =>
          \A s \in Sources : Attached(s) => Attached(s)'
    /\ (last'.op = "set_children" /\ ~last'.raised) =>
          \A s \in Sources : s = last'.self => Attached(s)'

C22_Step ==
    (/\ last'.op = "stop"
     /\ \E i \in DOMAIN trace' : trace'[i].res = "raise")
    => LET self == last'.self
           kids == children[self]
           k == Len(trace')
       IN  /\ last'.raised
           /\ running[self] /\ running'[self]
           /\ k <= Len(kids)
           /\ \A i \in 1..k :
                 /\ trace'[i].ev = "stop" /\ trace'[i].obj = kids[i]
                 /\ trace'[i].res = "raise" <=> i = k
           /\ \A j \in (k + 1)..Len(kids) :
                 kids[j] \notin {kids[i] : i \in 1..k}
                     => running'[kids[j]] = running[kids[j]]
           /\ children' = children

C22_StopPropagates == [][C22_Step]_vars

\* C22 witness: the first child's stop() raised in the stop() of a running
\* Source with two children; the second child, which was running, was not
\* reached and still runs, as does the Source.
C22_Witness ==
    /\ last.op = "stop" /\ last.wasRunning /\ last.raised
    /\ Len(children[last.self]) = 2 /\ Len(trace) = 1
    /\ trace[1].obj = children[last.self][1] /\ trace[1].res = "raise"
    /\ children[last.self][2] # children[last.self][1]
    /\ running[children[last.self][2]]
    /\ running[last.self]

\* C23: after __set_pure_state__ has restored a VTKDataSource from the state
\* of a source none of whose data assignments raised, and has returned, the
\* restored source has one ModifiedEvent subscription, on the restored
\* dataset, and _observer_id is its token.
C23_TokenIsLive ==
    (IsVRestore /\ ~last.raised /\ last.arg \notin failed)
    => Subscriptions(last.self)
          = {<<data[last.self], observer_id[last.self]>>}

\* C24: when an append, an item-wise removal or a wholesale replacement of
\* the children of a Source s has returned, then for every Filter f, s is
\* not in f.inputs if f is not in s.children, and is in f.inputs exactly
\* once if f is in s.children once.
C24_InputsMatchChildren ==
    (last.op \in {"add_child", "remove", "set_children"} /\ Returned)
    => \A s \in Sources : \A f \in Filters :
          /\ f \notin Kids(s) => Count(inputs[f], s) = 0
          /\ Count(children[s], f) = 1 => Count(inputs[f], s) = 1

\* C25: every name a refresh pass gives to set_active_<kind> and to
\* aa.assign is non-empty and among the arrays the dataset holds for that
\* (role, kind).
C25_PassNamesAreCandidates ==
    RanPass
    => \A i \in DOMAIN trace :
          trace[i].ev \in {"set_active", "aa.assign"}
          => /\ trace[i].res # ""
             /\ trace[i].res \in Range(Arrays(data[last.self], trace[i].obj))

====
